---- MODULE Spec2Model ----
(***************************************************************************)
(* A model of the BoviCare retrieval -> rerank -> synthesize pipeline:     *)
(*   src/RAG/rag_service.py     RAGService (startup / shutdown / ask)      *)
(*   src/RAG/vector_service.py  VectorService (collection setup, insert,   *)
(*                              dense search) over a Milvus collection     *)
(*   src/RAG/rag.py             similarity reranker and answer synthesis   *)
(*   src/RAG/test_vetbench_healthbench_style.py  model-scoring reranker    *)
(*                                                                         *)
(* Python values are modelled as follows.  A str is a sequence of          *)
(* one-character strings; None is the value NoneVal; a dict is a record    *)
(* whose DOMAIN holds the keys that are present (Get models dict.get).     *)
(* Coroutines run on one asyncio event loop: the code between two          *)
(* suspension points (an await of asyncio.to_thread) is one atomic step.   *)
(***************************************************************************)
EXTENDS Integers, Sequences, FiniteSets, TLC

(***************************************************************************)
(* Bounds of the model.                                                    *)
(***************************************************************************)
NumTasks == 2        \* concurrent callers of one RAGService
MaxCalls == 3        \* calls of startup / ask / shutdown in one behaviour
MaxCorpus == 2       \* chunks stored when the service starts
MaxTopK == 2         \* largest top_k a caller passes
MaxBatch == 2        \* documents in one insert_documents call
MaxRows == 2         \* entities the collection holds
MaxDocs == 3         \* documents handed to a reranker
MaxSynthDocs == 4    \* documents handed to generate_rag_response

(***************************************************************************)
(* Program constants.                                                      *)
(***************************************************************************)
TopKDefault == 5         \* RAGService.__init__(top_k_default=5)
SynthTopDocs == 3        \* context_docs[:3]
SnippetLimit == 400      \* len(snippet) > 400, snippet[:400]
PreviewLimit == 200      \* section_text[:200]

(***************************************************************************)
(* Python values.                                                          *)
(***************************************************************************)
NoneVal == <<"<None>">>

Get(doc, key, default) == IF key \in DOMAIN doc THEN doc[key] ELSE default

Take(s, n) == SubSeq(s, 1, IF n < Len(s) THEN n ELSE Len(s))

Truthy(s) == s # NoneVal /\ s # <<>>

IsSpace(c) == c = " "

RECURSIVE LStrip(_)
LStrip(s) == IF s # <<>> /\ IsSpace(Head(s)) THEN LStrip(Tail(s)) ELSE s

RECURSIVE RStrip(_)
RStrip(s) ==
    IF s # <<>> /\ IsSpace(s[Len(s)]) THEN RStrip(SubSeq(s, 1, Len(s) - 1)) ELSE s

Strip(s) == RStrip(LStrip(s))

\* (mutant) an item goes before the items of equal score: ties are reversed
RECURSIVE InsertDescTiesFirst(_, _)
InsertDescTiesFirst(sorted, item) ==
    IF sorted = <<>> THEN <<item>>
    ELSE IF Head(sorted)[1] > item[1]
         THEN <<Head(sorted)>> \o InsertDescTiesFirst(Tail(sorted), item)
         ELSE <<item>> \o sorted

\* sorted(items, key=score, reverse=True): Python's sort is stable, also with
\* reverse=True.  items are <<score, doc>> pairs.
RECURSIVE InsertDesc(_, _)
InsertDesc(sorted, item) ==
    IF sorted = <<>> THEN <<item>>
    ELSE IF Head(sorted)[1] >= item[1]
         THEN <<Head(sorted)>> \o InsertDesc(Tail(sorted), item)
         ELSE <<item>> \o sorted

RECURSIVE SortDesc(_)
SortDesc(items) ==
    IF items = <<>> THEN <<>>
    ELSE InsertDesc(SortDesc(SubSeq(items, 1, Len(items) - 1)), items[Len(items)])

Docs(scored) == [i \in 1..Len(scored) |-> scored[i][2]]

(***************************************************************************)
(* The embedding model (all-MiniLM-L6-v2), abstracted: the vector of a     *)
(* text is identified by the text it encodes, and the inner product of two *)
(* unit vectors is a fixed table: equal texts 3, texts on the same topic   *)
(* (same first character) 2, other texts 1, anything with the zero         *)
(* vector 0.                                                               *)
(***************************************************************************)
ZeroVector == <<>>

Encode(text) == text

InnerProduct(u, v) ==
    IF u = ZeroVector \/ v = ZeroVector THEN 0
    ELSE IF u = v THEN 3
    ELSE IF Head(u) = Head(v) THEN 2
    ELSE 1

\* VectorService._get_dense_embedding
GetDenseEmbedding(text) ==
    IF Strip(text) = <<>> THEN ZeroVector ELSE Encode(text)

(***************************************************************************)
(* rag.py                                                                  *)
(***************************************************************************)
\* rerank_documents_with_similarity: documents with a falsy section_text
\* are skipped (continue), the others sorted by descending cosine score.
RECURSIVE ScoreBySimilarity(_, _)
ScoreBySimilarity(query, documents) ==
    IF documents = <<>> THEN <<>>
    ELSE LET doc == Head(documents)
             text == Get(doc, "section_text", <<>>)
             rest == ScoreBySimilarity(query, Tail(documents))
         IN  IF ~Truthy(text) THEN rest
             ELSE <<<<InnerProduct(Encode(query), Encode(text)), doc>>>> \o rest

rerank_documents_with_similarity(query, documents) ==
    IF documents = <<>> THEN <<>>
    ELSE Docs(SortDesc(ScoreBySimilarity(query, documents)))

\* s.rsplit(" ", 1)[0]: s up to its last space, or s when it has none
RSplitHead(s) ==
    LET spaces == {i \in 1..Len(s) : s[i] = " "}
    IN  IF spaces = {} THEN s
        ELSE SubSeq(s, 1, (CHOOSE i \in spaces : \A j \in spaces : j <= i) - 1)

Ellipsis == <<".", ".", ".">>

Snippet(text) ==
    IF Len(text) > SnippetLimit
    THEN RSplitHead(Take(text, SnippetLimit)) \o Ellipsis
    ELSE text

CitationBlock(doc) ==
    [name |-> Get(doc, "disease_name", "Doenca nao identificada"),
     section |-> Get(doc, "section_type", "secao"),
     snippet |-> Snippet(Get(doc, "section_text", <<>>))]

\* (mutant) every document gets a citation block: the [:3] is forgotten
generate_rag_response_all(query, context_docs) ==
    IF context_docs = <<>>
    THEN [raised |-> FALSE, msg |-> "no_relevant_information", blocks |-> <<>>,
          closing |-> FALSE]
    ELSE [raised |-> FALSE, msg |-> "summary",
          blocks |-> [i \in 1..Len(context_docs) |-> CitationBlock(context_docs[i])],
          closing |-> TRUE]

\* generate_rag_response; len(None) raises TypeError
generate_rag_response(query, context_docs) ==
    IF context_docs = <<>>
    THEN [raised |-> FALSE, msg |-> "no_relevant_information", blocks |-> <<>>,
          closing |-> FALSE]
    ELSE LET top == Take(context_docs, SynthTopDocs)
         IN  IF \E i \in 1..Len(top) : Get(top[i], "section_text", <<>>) = NoneVal
             THEN [raised |-> TRUE, msg |-> "TypeError", blocks |-> <<>>,
                   closing |-> FALSE]
             ELSE [raised |-> FALSE, msg |-> "summary",
                   blocks |-> [i \in 1..Len(top) |-> CitationBlock(top[i])],
                   closing |-> TRUE]

(***************************************************************************)
(* test_vetbench_healthbench_style.py: the model-scoring reranker.  The    *)
(* reply of the scoring model to one request is a str, or Failure when the *)
(* request raises.  Scores are counted in hundredths (0.5 is 50); replies  *)
(* in the model carry at most two decimals.                                *)
(***************************************************************************)
Failure == <<"<error>">>

DefaultScore == 50       \* return (0.5, doc)

Digits == {"0", "1", "2", "3", "4", "5", "6", "7", "8", "9"}

DigitValue(c) ==
    CASE c = "0" -> 0 [] c = "1" -> 1 [] c = "2" -> 2 [] c = "3" -> 3
      [] c = "4" -> 4 [] c = "5" -> 5 [] c = "6" -> 6 [] c = "7" -> 7
      [] c = "8" -> 8 [] c = "9" -> 9

\* the longest run of digits at the head of s
RECURSIVE DigitRun(_)
DigitRun(s) ==
    IF s # <<>> /\ Head(s) \in Digits THEN <<Head(s)>> \o DigitRun(Tail(s)) ELSE <<>>

RECURSIVE DecimalValue(_, _)
DecimalValue(digits, acc) ==
    IF digits = <<>> THEN acc
    ELSE DecimalValue(Tail(digits), acc * 10 + DigitValue(Head(digits)))

\* re.search(r'(\d+\.?\d*)', s): the first digit run, with the fraction that
\* follows it; float() of the match, in hundredths
RECURSIVE SearchNumber(_)
SearchNumber(s) ==
    IF s = <<>> THEN [found |-> FALSE, value |-> 0]
    ELSE IF Head(s) \notin Digits THEN SearchNumber(Tail(s))
    ELSE LET whole == DigitRun(s)
             after == SubSeq(s, Len(whole) + 1, Len(s))
             frac == IF after # <<>> /\ Head(after) = "."
                     THEN DigitRun(Tail(after)) ELSE <<>>
             cents == Take(frac \o <<"0", "0">>, 2)
         IN  [found |-> TRUE,
              value |-> DecimalValue(whole, 0) * 100 + DecimalValue(cents, 0)]

\* max(0.0, min(1.0, score))
Clamp(score) == IF score > 100 THEN 100 ELSE IF score < 0 THEN 0 ELSE score

\* (mutant) the scoring request is not guarded: its failure leaves the task
ScoreDocumentUnguarded(doc, response) ==
    IF Get(doc, "section_text", <<>>) = NoneVal \/ response = Failure
    THEN [raised |-> TRUE, score |-> 0]
    ELSE LET m == SearchNumber(Strip(response))
         IN  [raised |-> FALSE,
              score |-> IF m.found THEN Clamp(m.value) ELSE DefaultScore]

\* score_document.  The slice of a section_text that is None raises
\* TypeError before the guarded request; a request that fails, and a reply
\* with no number in it, score DefaultScore.
ScoreDocument(doc, response) ==
    IF Get(doc, "section_text", <<>>) = NoneVal
    THEN [raised |-> TRUE, score |-> 0]
    ELSE IF response = Failure
    THEN [raised |-> FALSE, score |-> DefaultScore]
    ELSE LET m == SearchNumber(Strip(response))
         IN  [raised |-> FALSE,
              score |-> IF m.found THEN Clamp(m.value) ELSE DefaultScore]

\* _rerank_documents_with_model: asyncio.gather raises what a task raises,
\* and the outer except returns the documents as they came
rerank_documents_with_model(query, documents, responses) ==
    LET scores == [i \in 1..Len(documents) |-> ScoreDocument(documents[i], responses[i])]
    IN  IF \E i \in 1..Len(documents) : scores[i].raised
        THEN [aborted |-> TRUE, scored |-> <<>>, out |-> documents]
        ELSE LET scored == [i \in 1..Len(documents) |-> <<scores[i].score, documents[i]>>]
             IN  [aborted |-> FALSE, scored |-> scored, out |-> Docs(SortDesc(scored))]

(***************************************************************************)
(* vector_service.py: the Milvus collection behind the client.  The store  *)
(* is the pair (exists, rows); rows is the sequence of stored entities.    *)
(***************************************************************************)
\* (mutant) an existing collection is always dropped and created again
SetupCollectionRecreate(collection_exists, stored, hcOk, descOk, dropOk, createOk) ==
    IF hcOk /\ dropOk /\ createOk
    THEN [exists |-> TRUE, rows |-> <<>>, dropped |-> collection_exists,
          created |-> TRUE, raised |-> FALSE]
    ELSE [exists |-> collection_exists, rows |-> stored, dropped |-> FALSE,
          created |-> FALSE, raised |-> TRUE]

\* VectorService._setup_collection.  hcOk, descOk, dropOk, createOk say
\* whether the client's has_collection, describe_collection,
\* drop_collection and create_collection calls succeed; a call that fails
\* raises.  Any exception but describe_collection's is re-raised.
SetupCollection(collection_exists, stored, hcOk, descOk, dropOk, createOk) ==
    IF ~hcOk
    THEN [exists |-> collection_exists, rows |-> stored, dropped |-> FALSE,
          created |-> FALSE, raised |-> TRUE]
    ELSE LET dropping == collection_exists /\ ~descOk
             dropFails == dropping /\ ~dropOk
             has == collection_exists /\ ~dropping
             rowsAfterDrop == IF dropping /\ dropOk THEN <<>> ELSE stored
         IN  IF dropFails
             THEN [exists |-> collection_exists, rows |-> stored,
                   dropped |-> FALSE, created |-> FALSE, raised |-> TRUE]
             ELSE IF has
             THEN [exists |-> TRUE, rows |-> stored, dropped |-> FALSE,
                   created |-> FALSE, raised |-> FALSE]
             ELSE IF ~createOk
             THEN [exists |-> FALSE, rows |-> rowsAfterDrop,
                   dropped |-> dropping, created |-> FALSE, raised |-> TRUE]
             ELSE [exists |-> TRUE, rows |-> rowsAfterDrop,
                   dropped |-> dropping, created |-> TRUE, raised |-> FALSE]

\* client.search: up to limit rows, by descending inner product with the
\* query vector
RECURSIVE ScoreRows(_, _)
ScoreRows(qvec, rows) ==
    IF rows = <<>> THEN <<>>
    ELSE <<<<InnerProduct(qvec, Head(rows).dense_vector), Head(rows)>>>>
         \o ScoreRows(qvec, Tail(rows))

ClientSearch(rows, qvec, limit) == Take(SortDesc(ScoreRows(qvec, rows)), limit)

\* the dict hybrid_search builds out of one hit
HitDocument(hit) ==
    LET entity == hit[2]
    IN  [disease_name |-> Get(entity, "disease_name", ""),
         chunk_id |-> Get(entity, "chunk_id", <<>>),
         section_type |-> Get(entity, "section_type", ""),
         page_number |-> Get(entity, "page_number", ""),
         section_text |-> Get(entity, "section_text", <<>>),
         score |-> hit[1]]

\* VectorService.hybrid_search, when no call raises (document_id,
\* disease_type, disease_id and chunk_index are copied the same way and read
\* by nothing downstream)
hybrid_search(rows, query, top_k) ==
    LET results == ClientSearch(rows, GetDenseEmbedding(query), top_k)
    IN  [i \in 1..Len(results) |-> HitDocument(results[i])]

\* str(v) of a field value: str(None) is "None", a str is itself
Str(v) == IF v = NoneVal THEN <<"N", "o", "n", "e">> ELSE v

Digit(i) == <<"0", "1", "2", "3", "4", "5", "6", "7", "8", "9">>[i + 1]

\* f"chunk_{n}"
ChunkName(n) == <<"c", "h", "u", "n", "k", "_", Digit(n)>>

\* the body of insert_documents' per-document try, for the document at
\* position n (n = i + 1).  _get_dense_embedding calls text.strip(), which
\* raises AttributeError on a section_text that is None.
PrepareRecord(n, doc) ==
    LET text == Get(doc, "section_text", <<>>)
        stripped == Strip(Str(Get(doc, "chunk_id", <<>>)))
        chunk_id == IF stripped = <<>> THEN ChunkName(n) ELSE stripped
    IN  IF text = NoneVal
        THEN [ok |-> FALSE]
        ELSE [ok |-> TRUE,
              data |-> [id |-> chunk_id,
                        chunk_id |-> chunk_id,
                        disease_name |-> Get(doc, "disease_name", ""),
                        section_type |-> Get(doc, "section_type", ""),
                        page_number |-> Get(doc, "page_number", ""),
                        section_text |-> Str(text),
                        dense_vector |-> GetDenseEmbedding(text)]]

\* (mutant) no per-document try: the first bad record aborts the batch
RECURSIVE PrepareAllOrNothing(_, _)
PrepareAllOrNothing(n, documents) ==
    IF documents = <<>> THEN <<>>
    ELSE LET r == PrepareRecord(n, Head(documents))
             rest == PrepareAllOrNothing(n + 1, Tail(documents))
         IN  IF r.ok /\ Len(rest) = Len(documents) - 1
             THEN <<r.data>> \o rest
             ELSE <<>>

\* the loop over enumerate(documents): a document whose preparation raises
\* is logged and skipped
RECURSIVE PrepareAll(_, _)
PrepareAll(n, documents) ==
    IF documents = <<>> THEN <<>>
    ELSE LET r == PrepareRecord(n, Head(documents))
             rest == PrepareAll(n + 1, Tail(documents))
         IN  IF r.ok THEN <<r.data>> \o rest ELSE rest

\* client.insert appends the entities: Milvus does not look for an entity
\* with the same primary key on insert (that is upsert's work)
ClientInsert(stored, data) == stored \o data

\* VectorService.insert_documents.  insertOk says whether client.insert
\* succeeds; it raises when the collection does not exist.  Every exception
\* is caught and turned into False.
insert_documents(collection_exists, stored, documents, insertOk) ==
    IF documents = <<>>
    THEN [ret |-> FALSE, rows |-> stored]
    ELSE LET data == PrepareAll(1, documents)
         IN  IF data = <<>>
             THEN [ret |-> FALSE, rows |-> stored]
             ELSE IF insertOk /\ collection_exists
             THEN [ret |-> TRUE, rows |-> ClientInsert(stored, data)]
             ELSE [ret |-> FALSE, rows |-> stored]

(***************************************************************************)
(* rag_service.py: what ask does with the documents the search returned.   *)
(* rerank_documents_with_similarity has no suspension point, so everything *)
(* from the return of hybrid_search to the return of ask is one step.      *)
(***************************************************************************)
FallbackAnswer ==
    [raised |-> FALSE, msg |-> "ask_fallback", blocks |-> <<>>, closing |-> FALSE]

\* top_k = top_k or self.top_k_default (None and 0 are both falsy)
EffectiveTopK(top_k) == IF top_k = 0 THEN TopKDefault ELSE top_k

\* (mutant) the search is asked for top_k candidates only
SearchLimitSingle(top_k) == top_k

\* the limit ask passes to hybrid_search
SearchLimit(top_k) == top_k * 2

\* (mutant) the empty result is not short-circuited
NoDocumentsNever(documents) == FALSE

\* if not documents
NoDocuments(documents) == documents = <<>>

\* (mutant) the slice is forgotten
SelectedAll(ranked, top_k) == ranked

\* selected = ranked[:top_k]
Selected(ranked, top_k) == Take(ranked, top_k)

SourceOf(doc) ==
    [disease_name |-> Get(doc, "disease_name", "None"),
     section_type |-> Get(doc, "section_type", "None"),
     page_number |-> Get(doc, "page_number", "None"),
     content_preview |-> Take(Get(doc, "section_text", <<>>), PreviewLimit)]

\* the loop over selected that builds the sources of an answer
Sources(selected) == [i \in 1..Len(selected) |-> SourceOf(selected[i])]

\* None[:200] and len(None) raise TypeError
SliceRaises(selected) ==
    \E i \in 1..Len(selected) : Get(selected[i], "section_text", <<>>) = NoneVal

BenchPreviewLimit == 200     \* the benchmark wrapper's [:200] and > 200

\* BoviCareRAGSystemHealthBenchStyle.ask, content_preview:
\* text[:200] + "..." if len(text) > 200 else text
BenchPreview(text) ==
    IF Len(text) > BenchPreviewLimit
    THEN Take(text, BenchPreviewLimit) \o Ellipsis
    ELSE text

BenchSourceOf(doc) ==
    [disease_name |-> Get(doc, "disease_name", "N/A"),
     disease_type |-> Get(doc, "disease_type", "N/A"),
     chunk_index |-> Get(doc, "chunk_index", "N/A"),
     section_type |-> Get(doc, "section_type", "N/A"),
     page_number |-> Get(doc, "page_number", "N/A"),
     relevance_score |-> Get(doc, "score", 0),
     content_preview |-> BenchPreview(Get(doc, "section_text", <<>>))]

\* the benchmark wrapper's loop over final_results
BenchSources(final_results) ==
    [i \in 1..Len(final_results) |-> BenchSourceOf(final_results[i])]

\* limit is the limit the search was asked for
AskResult(query, top_k, limit, documents) ==
    IF NoDocuments(documents)
    THEN [op |-> "ask", kind |-> "return", answer |-> FallbackAnswer,
          sources |-> <<>>, top_k |-> top_k, searched |-> TRUE,
          documents |-> documents, reranked |-> FALSE, synthesized |-> FALSE,
          query |-> query, limit |-> limit]
    ELSE LET ranked == rerank_documents_with_similarity(query, documents)
             selected == Selected(ranked, top_k)
             answer == generate_rag_response(query, selected)
             raised == answer.raised \/ SliceRaises(selected)
         IN  [op |-> "ask", kind |-> IF raised THEN "raise" ELSE "return",
              answer |-> answer,
              sources |-> IF raised THEN <<>> ELSE Sources(selected),
              top_k |-> top_k, searched |-> TRUE, documents |-> documents,
              reranked |-> TRUE, synthesized |-> TRUE,
              query |-> query, limit |-> limit]

AskRaise(top_k, why) ==
    [op |-> "ask", kind |-> "raise", answer |-> FallbackAnswer, sources |-> <<>>,
     top_k |-> top_k, searched |-> FALSE, documents |-> <<>>,
     reranked |-> FALSE, synthesized |-> FALSE, why |-> why]

(***************************************************************************)
(* State.                                                                  *)
(***************************************************************************)
VARIABLES
    exists,          \* the Milvus collection exists
    rows,            \* the entities stored in it
    vector_service,  \* RAGService.vector_service: 0 is None, else a client id
    clients,         \* the VectorService objects constructed so far: setup
                     \* completed, close called, connection closed
    pc,              \* where each caller's coroutine is suspended
    frame,           \* each caller's local variables
    result,          \* what the call that ended in the last step returned or
                     \* raised (NoResult when the step ended no call)
    calls,           \* calls begun
    setups,          \* _setup_collection calls begun
    shutdowns,       \* shutdown calls that found a vector_service
    last,            \* the last call made on a VectorService used on its own
    rerank,          \* a call of a reranker: its input and its output
    synth            \* a call of generate_rag_response, or of the loop that
                     \* builds the sources: its input and output

storeVars == <<exists, rows>>
serviceVars == <<vector_service, clients, pc, frame, result, calls, setups, shutdowns>>
vars == <<exists, rows, vector_service, clients, pc, frame, result, calls,
          setups, shutdowns, last, rerank, synth>>

Tasks == 1..NumTasks

\* the section texts of the corpus: an empty one, one on the query's topic,
\* one on another topic
CorpusTexts == {<<>>, <<"m", " ", "x">>, <<"b">>}

Queries == {<<"m">>}

\* an entity as insert_documents writes it
StoredRow(chunk_id, text) ==
    [id |-> chunk_id, chunk_id |-> chunk_id,
     disease_name |-> IF text = <<>> THEN "" ELSE IF Head(text) = "m" THEN "Mastitis" ELSE "BVD",
     section_type |-> "symptoms", page_number |-> "1",
     section_text |-> text, dense_vector |-> GetDenseEmbedding(text)]

Corpora ==
    UNION {[1..n -> CorpusTexts] : n \in 0..MaxCorpus}

NoFrame == [op |-> "none", inst |-> 0, top_k |-> 0, query |-> <<>>]
NoResult == [op |-> "none", kind |-> "none"]
NoLast == [op |-> "none", raised |-> FALSE]
NoCall == [stage |-> "none"]

\* the state of a RAGService just constructed, over a store holding texts
InitService(texts) ==
    /\ rows = [i \in 1..Len(texts) |-> StoredRow(<<"c", Digit(i)>>, texts[i])]
    /\ exists \in BOOLEAN
    /\ (~exists => rows = <<>>)
    /\ vector_service = 0
    /\ clients = <<>>
    /\ pc = [t \in Tasks |-> "idle"]
    /\ frame = [t \in Tasks |-> NoFrame]
    /\ result = NoResult
    /\ calls = 0
    /\ setups = 0
    /\ shutdowns = 0
    /\ last = NoLast
    /\ rerank = NoCall
    /\ synth = NoCall

\* concurrent callers, over an empty store or a store of two chunks
Init == \E texts \in {<<>>, <<<<"b">>, <<"m", " ", "x">>>>} : InitService(texts)

\* one caller, over every corpus
InitAsk == \E texts \in Corpora : InitService(texts)

(***************************************************************************)
(* RAGService.startup                                                      *)
(***************************************************************************)
\* (mutant) startup constructs without looking at self.vector_service
NeedsStartupAlways(vs) == TRUE

\* if self.vector_service is None
NeedsStartup(vs) == vs = 0

\* self.vector_service = VectorService(); await self.vector_service.initialize()
\* up to the first suspension point of _setup_collection.  The constructor
\* connects the Milvus client and may raise.
Construct(t, op, top_k, query, waitpc) ==
    \E ctorOk \in BOOLEAN :
        IF ctorOk
        THEN /\ clients' = Append(clients, [closed |-> FALSE, initialized |-> FALSE,
                                            close_called |-> FALSE])
             /\ vector_service' = Len(clients) + 1
             /\ setups' = setups + 1
             /\ pc' = [pc EXCEPT ![t] = waitpc]
             /\ frame' = [frame EXCEPT ![t] = [op |-> op, inst |-> Len(clients) + 1,
                                                top_k |-> top_k, query |-> query]]
             /\ result' = NoResult
        ELSE /\ result' = (IF op = "ask" THEN AskRaise(top_k, "constructor")
                          ELSE [op |-> op, kind |-> "raise"])
             /\ UNCHANGED <<clients, vector_service, setups, pc, frame>>

StartupCall(t) ==
    /\ pc[t] = "idle"
    /\ calls < MaxCalls
    /\ calls' = calls + 1
    /\ IF NeedsStartup(vector_service)
       THEN Construct(t, "startup", 0, <<>>, "startup_init")
       ELSE /\ result' = [op |-> "startup", kind |-> "return", noop |-> TRUE]
            /\ UNCHANGED <<clients, vector_service, setups, pc, frame>>
    /\ UNCHANGED <<exists, rows, shutdowns, last, rerank, synth>>

\* ask, from the return of startup on: self.vector_service.hybrid_search(...)
\* reads self.vector_service and suspends in the search
BeginSearch(t, top_k, query) ==
    IF vector_service = 0
    THEN /\ result' = AskRaise(top_k, "AttributeError")
         /\ pc' = [pc EXCEPT ![t] = "idle"]
         /\ frame' = [frame EXCEPT ![t] = NoFrame]
    ELSE /\ pc' = [pc EXCEPT ![t] = "ask_search"]
         /\ frame' = [frame EXCEPT ![t] = [op |-> "ask", inst |-> vector_service,
                                            top_k |-> EffectiveTopK(top_k),
                                            query |-> query]]
         /\ result' = NoResult

\* _setup_collection runs to its end on the client of the caller
SetupDone(t) ==
    /\ pc[t] \in {"startup_init", "ask_init"}
    /\ \E hcOk, descOk, dropOk, createOk \in BOOLEAN :
        LET inst == frame[t].inst
            r == SetupCollection(exists, rows, hcOk /\ ~clients[inst].closed,
                                 descOk, dropOk, createOk)
        IN  /\ exists' = r.exists
            /\ rows' = r.rows
            /\ IF r.raised
               THEN /\ result' = (IF pc[t] = "ask_init"
                                THEN AskRaise(frame[t].top_k, "setup")
                                ELSE [op |-> "startup", kind |-> "raise"])
                    /\ pc' = [pc EXCEPT ![t] = "idle"]
                    /\ frame' = [frame EXCEPT ![t] = NoFrame]
                    /\ UNCHANGED clients
               ELSE /\ clients' = [clients EXCEPT ![inst].initialized = TRUE]
                    /\ IF pc[t] = "ask_init"
                       THEN BeginSearch(t, frame[t].top_k, frame[t].query)
                       ELSE /\ result' = [op |-> "startup", kind |-> "return",
                                          noop |-> FALSE]
                            /\ pc' = [pc EXCEPT ![t] = "idle"]
                            /\ frame' = [frame EXCEPT ![t] = NoFrame]
    /\ UNCHANGED <<vector_service, calls, setups, shutdowns, last, rerank, synth>>

(***************************************************************************)
(* RAGService.ask                                                          *)
(***************************************************************************)
AskCall(t, topks) ==
    /\ pc[t] = "idle"
    /\ calls < MaxCalls
    /\ calls' = calls + 1
    /\ \E top_k \in topks, query \in Queries :
        IF vector_service = 0
        THEN IF NeedsStartup(vector_service)
             THEN Construct(t, "ask", top_k, query, "ask_init")
             ELSE /\ BeginSearch(t, top_k, query)
                  /\ UNCHANGED <<clients, vector_service, setups>>
        ELSE /\ BeginSearch(t, top_k, query)
             /\ UNCHANGED <<clients, vector_service, setups>>
    /\ UNCHANGED <<exists, rows, shutdowns, last, rerank, synth>>

\* the embedding of the query and client.search complete; rerank, selection,
\* synthesis and the sources follow without suspension
AskSearchDone(t) ==
    /\ pc[t] = "ask_search"
    /\ \E searchOk \in BOOLEAN :
        LET f == frame[t]
            ok == searchOk /\ exists /\ ~clients[f.inst].closed
        IN  result' = (IF ok
                       THEN AskResult(f.query, f.top_k, SearchLimit(f.top_k),
                                hybrid_search(rows, f.query, SearchLimit(f.top_k)))
                       ELSE AskRaise(f.top_k, "search"))
    /\ pc' = [pc EXCEPT ![t] = "idle"]
    /\ frame' = [frame EXCEPT ![t] = NoFrame]
    /\ UNCHANGED <<exists, rows, vector_service, clients, calls, setups, shutdowns, last, rerank, synth>>

(***************************************************************************)
(* RAGService.shutdown                                                     *)
(***************************************************************************)
ShutdownCall(t) ==
    /\ pc[t] = "idle"
    /\ calls < MaxCalls
    /\ calls' = calls + 1
    /\ IF vector_service # 0
       THEN /\ pc' = [pc EXCEPT ![t] = "shutdown_close"]
            /\ frame' = [frame EXCEPT ![t] = [op |-> "shutdown", inst |-> vector_service,
                                               top_k |-> 0, query |-> <<>>]]
            /\ result' = NoResult
            /\ shutdowns' = shutdowns + 1
       ELSE /\ result' = [op |-> "shutdown", kind |-> "return", noop |-> TRUE]
            /\ UNCHANGED <<pc, frame, shutdowns>>
    /\ UNCHANGED <<exists, rows, vector_service, clients, setups, last, rerank, synth>>

\* (mutant) shutdown closes the client and keeps the reference to it
AfterShutdownKept(vs) == vs

\* self.vector_service = None
AfterShutdown(vs) == 0

\* __aexit__: client.close() in a thread, its exception logged and dropped;
\* then self.vector_service = None
ShutdownDone(t) ==
    /\ pc[t] = "shutdown_close"
    /\ \E closeOk \in BOOLEAN :
        clients' = [clients EXCEPT ![frame[t].inst] =
                        [@ EXCEPT !.closed = @ \/ closeOk, !.close_called = TRUE]]
    /\ vector_service' = AfterShutdown(vector_service)
    /\ result' = [op |-> "shutdown", kind |-> "return", noop |-> FALSE,
                  inst |-> frame[t].inst]
    /\ pc' = [pc EXCEPT ![t] = "idle"]
    /\ frame' = [frame EXCEPT ![t] = NoFrame]
    /\ UNCHANGED <<exists, rows, calls, setups, shutdowns, last, rerank, synth>>

Next ==
    \E t \in Tasks :
        \/ StartupCall(t)
        \/ SetupDone(t)
        \/ AskCall(t, {0, 1})
        \/ AskSearchDone(t)
        \/ ShutdownCall(t)
        \/ ShutdownDone(t)

Spec == Init /\ [][Next]_vars

NextAsk ==
    \/ StartupCall(1)
    \/ SetupDone(1)
    \/ AskCall(1, 0..MaxTopK)
    \/ AskSearchDone(1)
    \/ ShutdownCall(1)
    \/ ShutdownDone(1)

SpecAsk == InitAsk /\ [][NextAsk]_vars

(***************************************************************************)
(* A VectorService used on its own (the ingestion script): initialize and  *)
(* insert_documents called one after the other on one collection.          *)
(***************************************************************************)
\* the documents handed to insert_documents: one without chunk_id, one with
\* a padded chunk_id, one whose section_text is None (malformed)
InputDocs ==
    {[section_text |-> <<"x">>],
     [chunk_id |-> <<" ", "a">>, section_text |-> <<"x">>],
     [chunk_id |-> <<" ", "a">>, section_text |-> NoneVal]}

Batches == UNION {[1..n -> InputDocs] : n \in 0..MaxBatch}

InitStore ==
    /\ exists = FALSE
    /\ rows = <<>>
    /\ vector_service = 0
    /\ clients = <<>>
    /\ pc = [t \in Tasks |-> "idle"]
    /\ frame = [t \in Tasks |-> NoFrame]
    /\ result = NoResult
    /\ calls = 0
    /\ setups = 0
    /\ shutdowns = 0
    /\ last = NoLast
    /\ rerank = NoCall
    /\ synth = NoCall

\* VectorService.initialize
Initialize ==
    /\ \E hcOk, descOk, dropOk, createOk \in BOOLEAN :
        LET r == SetupCollection(exists, rows, hcOk, descOk, dropOk, createOk)
        IN  /\ exists' = r.exists
            /\ rows' = r.rows
            /\ last' = [op |-> "setup", raised |-> r.raised,
                        dropped |-> r.dropped, created |-> r.created,
                        introspected |-> hcOk /\ descOk,
                        after_setup |-> last.op = "setup" /\ ~last.raised,
                        rows_before |-> rows]
    /\ UNCHANGED <<serviceVars, rerank, synth>>

\* VectorService.insert_documents
InsertDocuments ==
    /\ \E documents \in Batches, insertOk \in BOOLEAN :
        LET r == insert_documents(exists, rows, documents, insertOk)
        IN  /\ Len(r.rows) <= MaxRows
            /\ rows' = r.rows
            /\ last' = [op |-> "insert", raised |-> FALSE,
                        documents |-> documents, store_ok |-> insertOk /\ exists,
                        ret |-> r.ret, rows_before |-> rows]
    /\ UNCHANGED exists
    /\ UNCHANGED <<serviceVars, rerank, synth>>

NextStore == Initialize \/ InsertDocuments

SpecStore == InitStore /\ [][NextStore]_vars

(***************************************************************************)
(* The two rerankers, called on every list of documents.                   *)
(***************************************************************************)
\* section_text empty, None, on the query's topic, on another topic
RerankTexts == <<<<>>, NoneVal, <<"m", "x">>, <<"b">>>>

\* the i-th document of a list: kind 0 has no section_text
RerankDoc(i, kind) ==
    IF kind = 0 THEN [chunk_id |-> <<Digit(i)>>]
    ELSE [chunk_id |-> <<Digit(i)>>, section_text |-> RerankTexts[kind]]

RerankInputs ==
    UNION {{[i \in 1..n |-> RerankDoc(i, kinds[i])] :
                kinds \in [1..n -> 0..Len(RerankTexts)]} : n \in 0..MaxDocs}

\* replies of the scoring model: a failed request, no number, 0.9, 7 and 0.2
Responses ==
    {Failure, <<"n", "o">>, <<"0", ".", "9">>, <<" ", "7">>, <<"0", ".", "2">>}

InitRerank ==
    /\ exists = FALSE
    /\ rows = <<>>
    /\ vector_service = 0
    /\ clients = <<>>
    /\ pc = [t \in Tasks |-> "idle"]
    /\ frame = [t \in Tasks |-> NoFrame]
    /\ result = NoResult
    /\ calls = 0
    /\ setups = 0
    /\ shutdowns = 0
    /\ last = NoLast
    /\ synth = NoCall
    /\ \E documents \in RerankInputs, query \in Queries :
          rerank = [stage |-> "input", query |-> query, documents |-> documents]

RerankWithSimilarity ==
    /\ rerank.stage = "input"
    /\ rerank' = [stage |-> "done", strategy |-> "similarity",
                  query |-> rerank.query, documents |-> rerank.documents,
                  responses |-> <<>>, aborted |-> FALSE,
                  scored |-> ScoreBySimilarity(rerank.query, rerank.documents),
                  out |-> rerank_documents_with_similarity(rerank.query,
                                                           rerank.documents)]
    /\ UNCHANGED <<storeVars, serviceVars, last, synth>>

RerankWithModel ==
    /\ rerank.stage = "input"
    /\ \E responses \in [1..Len(rerank.documents) -> Responses] :
        LET r == rerank_documents_with_model(rerank.query, rerank.documents, responses)
        IN  rerank' = [stage |-> "done", strategy |-> "model",
                       query |-> rerank.query, documents |-> rerank.documents,
                       responses |-> responses, aborted |-> r.aborted,
                       scored |-> r.scored, out |-> r.out]
    /\ UNCHANGED <<storeVars, serviceVars, last, synth>>

NextRerank == RerankWithSimilarity \/ RerankWithModel

SpecRerank == InitRerank /\ [][NextRerank]_vars

(***************************************************************************)
(* generate_rag_response and the source-building loops, called on every    *)
(* list of documents.                                                      *)
(***************************************************************************)
\* a text of n characters with spaces at the given positions (from 1)
MkText(n, spaces) == [i \in 1..n |-> IF i \in spaces THEN " " ELSE "a"]

SynthTexts ==
    {MkText(5, {3}),
     MkText(SnippetLimit, {}),
     MkText(SnippetLimit + 1, {}),
     MkText(SnippetLimit + 1, {SnippetLimit}),
     MkText(SnippetLimit + 1, {SnippetLimit - 2}),
     MkText(SnippetLimit + 5, {200, SnippetLimit + 1})}

\* a document with no name, section or text; one whose section_text is None;
\* one for each text
SynthDocs ==
    {[page_number |-> "1"],
     [disease_name |-> "Mastitis", section_type |-> "symptoms",
      section_text |-> NoneVal]}
        \cup {[disease_name |-> "Mastitis", section_type |-> "symptoms",
               section_text |-> t] : t \in SynthTexts}

SynthInputs == UNION {[1..n -> SynthDocs] : n \in 0..MaxSynthDocs}

InitSynth ==
    /\ exists = FALSE
    /\ rows = <<>>
    /\ vector_service = 0
    /\ clients = <<>>
    /\ pc = [t \in Tasks |-> "idle"]
    /\ frame = [t \in Tasks |-> NoFrame]
    /\ result = NoResult
    /\ calls = 0
    /\ setups = 0
    /\ shutdowns = 0
    /\ last = NoLast
    /\ rerank = NoCall
    /\ \E docs \in SynthInputs, query \in Queries :
          synth = [stage |-> "input", query |-> query, docs |-> docs]

Synthesize ==
    /\ synth.stage = "input"
    /\ synth' = [stage |-> "done", query |-> synth.query, docs |-> synth.docs,
                 out |-> generate_rag_response(synth.query, synth.docs)]
    /\ UNCHANGED <<storeVars, serviceVars, last, rerank>>

\* the sources RAGService.ask builds out of the selected documents
BuildSources ==
    /\ synth.stage = "input"
    /\ synth' = [stage |-> "sources", wrapper |-> "service", query |-> synth.query,
                 docs |-> synth.docs, error |-> SliceRaises(synth.docs),
                 sources |-> IF SliceRaises(synth.docs) THEN <<>>
                             ELSE Sources(synth.docs)]
    /\ UNCHANGED <<storeVars, serviceVars, last, rerank>>

\* the sources the benchmark wrapper builds out of its final results; its
\* outer except turns an exception into an answer with no sources
BuildBenchSources ==
    /\ synth.stage = "input"
    /\ synth' = [stage |-> "sources", wrapper |-> "benchmark", query |-> synth.query,
                 docs |-> synth.docs, error |-> SliceRaises(synth.docs),
                 sources |-> IF SliceRaises(synth.docs) THEN <<>>
                             ELSE BenchSources(synth.docs)]
    /\ UNCHANGED <<storeVars, serviceVars, last, rerank>>

NextSynth == Synthesize \/ BuildSources \/ BuildBenchSources

SpecSynth == InitSynth /\ [][NextSynth]_vars

(***************************************************************************)
(* Claims about RAGService.                                                *)
(***************************************************************************)
AskReturned == result.op = "ask" /\ result.kind = "return"

\* C1: for every query, corpus and topK >= 1, an answer of ask has at most
\* topK sources (result.top_k is the top_k ask worked with: the caller's, or
\* the default when the caller passed none).
C1_SourcesAtMostTopK ==
    AskReturned => result.top_k >= 1 /\ Len(result.sources) <= result.top_k

\* an ask whose search returned more candidates than topK and that cut them
C1_Witness ==
    /\ AskReturned
    /\ Len(result.documents) > result.top_k
    /\ Len(result.sources) = result.top_k

\* C2: when the search returns no candidate, ask returns (does not raise) the
\* fixed fallback answer with no sources, and calls neither the reranker nor
\* the synthesizer.
C2_EmptySearchFallsBack ==
    (result.op = "ask" /\ result.searched /\ result.documents = <<>>)
        => /\ result.kind = "return"
           /\ result.answer = FallbackAnswer
           /\ result.sources = <<>>
           /\ ~result.reranked
           /\ ~result.synthesized

\* an ask over an existing, empty collection
C2_Witness ==
    /\ result.op = "ask" /\ result.searched /\ result.documents = <<>>
    /\ exists /\ rows = <<>>

\* C9: ask never raises to its caller: a failing stage yields a fallback
\* answer with no sources.
C9_AskNeverRaises ==
    result.op = "ask" => result.kind = "return"

Ready == vector_service # 0 /\ clients[vector_service].initialized

\* C10: with no shutdown in between, however startup and ask calls
\* interleave, the collection setup runs at most once and at most one
\* VectorService is constructed; a startup call on a Ready service changes
\* nothing.
C10_SetupAtMostOnce ==
    /\ [](shutdowns = 0 => setups <= 1 /\ Len(clients) <= 1)
    /\ [][((\E t \in Tasks : StartupCall(t)) /\ Ready)
            => UNCHANGED <<vector_service, clients, setups, exists, rows>>]_vars

\* a startup that found the service started by another call and did nothing,
\* while that call's setup is still running
C10_Witness ==
    /\ shutdowns = 0 /\ setups = 1
    /\ result.op = "startup" /\ result.kind = "return" /\ result.noop
    /\ \E t \in Tasks : pc[t] \in {"startup_init", "ask_init"}

(***************************************************************************)
(* Claims about VectorService.                                             *)
(***************************************************************************)
\* C6: a collection setup that directly follows a successful collection
\* setup, and whose has_collection and describe_collection calls succeed
\* (the code's only sign of a changed schema is a describe_collection that
\* raises), drops nothing, creates nothing, leaves the stored chunks as they
\* were and raises nothing.
C6_SecondSetupIsNoOp ==
    (last.op = "setup" /\ last.after_setup /\ last.introspected)
        => /\ ~last.dropped
           /\ ~last.created
           /\ ~last.raised
           /\ exists
           /\ rows = last.rows_before

\* a second setup in a row over a collection that holds chunks
C6_Witness ==
    /\ last.op = "setup" /\ last.after_setup /\ last.introspected
    /\ rows # <<>>

\* a record insert_documents can prepare: its section_text is a str
WellFormed(doc) == Get(doc, "section_text", <<>>) # NoneVal

\* the entities the last insert_documents call added to the collection
Written == SubSeq(rows, Len(last.rows_before) + 1, Len(rows))

\* C7: insert_documents never raises; it returns True exactly when it wrote
\* at least one record; when the store takes the write, the records written
\* are the well-formed records of the batch, in order, the others being
\* skipped; it returns False only when the batch is empty, every record
\* failed preparation, or the store refused the write.
C7_InsertIsolatesFailures ==
    last.op = "insert" =>
        LET good == SelectSeq(last.documents, WellFormed)
        IN  /\ ~last.raised
            /\ Len(rows) >= Len(last.rows_before)
            /\ SubSeq(rows, 1, Len(last.rows_before)) = last.rows_before
            /\ (last.ret <=> Len(Written) >= 1)
            /\ last.store_ok =>
                  /\ Len(Written) = Len(good)
                  /\ \A i \in 1..Len(good) :
                        Written[i].section_text = good[i].section_text
            /\ ~last.ret =>
                  last.documents = <<>> \/ good = <<>> \/ ~last.store_ok

\* a batch of a malformed and a well-formed record, of which one is written
C7_Witness ==
    /\ last.op = "insert" /\ last.ret
    /\ Len(last.documents) = 2
    /\ \E i \in 1..2 : ~WellFormed(last.documents[i])
    /\ Len(Written) = 1

\* C8: the collection holds at most one record per chunk_id (a record
\* inserted with a stored chunk_id replaces the stored one).
C8_OneRowPerChunkId ==
    \A i, j \in 1..Len(rows) : rows[i].chunk_id = rows[j].chunk_id => i = j

(***************************************************************************)
(* Claims about the rerankers and the synthesizer.                         *)
(***************************************************************************)
Count(seq, x) == Cardinality({i \in 1..Len(seq) : seq[i] = x})

IsPermutation(a, b) ==
    /\ Len(a) = Len(b)
    /\ \A i \in 1..Len(a) : Count(a, a[i]) = Count(b, a[i])

\* C3: under both strategies the output of rerank is a permutation of its
\* input, also for documents whose section_text is empty or missing.
C3_RerankIsPermutation ==
    rerank.stage = "done" => IsPermutation(rerank.documents, rerank.out)

\* what a reply is worth, by the contract: 0.9 is 0.9, 7 is clamped to 1.0,
\* 0.2 is 0.2, a failed request or a reply without a number is 0.5
ExpectedScore(response) ==
    CASE response = <<"0", ".", "9">> -> 90
      [] response = <<" ", "7">> -> 100
      [] response = <<"0", ".", "2">> -> 20
      [] OTHER -> 50

NoNumber(response) == response = Failure \/ response = <<"n", "o">>

\* C4: in the model-scoring reranker (over documents whose section_text is
\* absent or a str) a scoring request that fails, or whose reply holds no
\* number, gives its document the score 0.5 and the document stays in the
\* output; it never aborts the batch, and every other document keeps the
\* score of its own reply.
C4_ScoringFailureIsIsolated ==
    (/\ rerank.stage = "done"
     /\ rerank.strategy = "model"
     /\ \A i \in 1..Len(rerank.documents) :
            Get(rerank.documents[i], "section_text", <<>>) # NoneVal)
        => /\ ~rerank.aborted
           /\ Len(rerank.scored) = Len(rerank.documents)
           /\ \A i \in 1..Len(rerank.documents) :
                /\ rerank.scored[i][2] = rerank.documents[i]
                /\ rerank.scored[i][1] = ExpectedScore(rerank.responses[i])
                /\ NoNumber(rerank.responses[i]) =>
                      /\ rerank.scored[i][1] = 50
                      /\ \E j \in 1..Len(rerank.out) :
                            rerank.out[j] = rerank.documents[i]
           /\ IsPermutation(rerank.documents, rerank.out)

\* a batch in which one request failed and a sibling got its own score
C4_Witness ==
    /\ rerank.stage = "done" /\ rerank.strategy = "model" /\ ~rerank.aborted
    /\ \E i, j \in 1..Len(rerank.documents) :
          /\ rerank.responses[i] = Failure
          /\ rerank.scored[i][1] = 50
          /\ rerank.scored[j][1] = 90
          /\ rerank.out[1] = rerank.documents[j]

EndsWithEllipsis(s) ==
    Len(s) >= 3 /\ SubSeq(s, Len(s) - 2, Len(s)) = <<".", ".", ".">>

\* C5: for every document whose section_text is longer than 400 characters
\* the snippet, ellipsis included, is at most 400 characters long, ends with
\* the ellipsis, and is the text cut before a space at or before position
\* 400 (no word is split).
C5_SnippetBounded ==
    (synth.stage = "done" /\ ~synth.out.raised) =>
        \A i \in 1..Len(synth.out.blocks) :
            LET text == Get(synth.docs[i], "section_text", <<>>)
                snippet == synth.out.blocks[i].snippet
                kept == Len(snippet) - 3
            IN  Len(text) > 400 =>
                    /\ Len(snippet) <= 400
                    /\ EndsWithEllipsis(snippet)
                    /\ kept <= 400
                    /\ SubSeq(snippet, 1, kept) = SubSeq(text, 1, kept)
                    /\ text[kept + 1] = " "

(***************************************************************************)
(* Claims about the life cycle of RAGService under concurrent callers.     *)
(***************************************************************************)
\* the callers suspended in the collection setup they started
Initializing(t) == pc[t] \in {"startup_init", "ask_init"}

\* the callers suspended in hybrid_search
Searching(t) == pc[t] = "ask_search"

\* C11: however concurrent ask calls interleave, an ask is suspended in a
\* store search only on a VectorService whose collection setup has completed
\* successfully, and never while another call is still in the setup of that
\* VectorService.
C11_SearchOnlyWhenReady ==
    \A t \in Tasks :
        Searching(t) =>
            /\ clients[frame[t].inst].initialized
            /\ \A u \in Tasks : Initializing(u) => frame[u].inst # frame[t].inst

(***************************************************************************)
(* Claims about shutdown and the calls that follow it (one caller, one     *)
(* call after the other).                                                  *)
(***************************************************************************)
\* the step is the beginning of an ask call by t
AskBegins(t) ==
    /\ pc[t] = "idle"
    /\ calls' = calls + 1
    /\ frame'[t].op = "ask" \/ result'.op = "ask"

\* C12: when a shutdown of a Ready service has completed, close has been
\* called on its client and vector_service is None; an ask that begins on
\* the service so closed constructs a new VectorService, and it is suspended
\* in a search only after the setup of that new, never closed VectorService
\* has completed (or it raises and searches nothing).
C12_ShutdownThenFreshStartup ==
    /\ []((/\ result.op = "shutdown" /\ result.kind = "return" /\ ~result.noop
           /\ clients[result.inst].initialized)
            => /\ vector_service = 0
               /\ clients[result.inst].close_called)
    /\ [][\A t \in Tasks :
            (AskBegins(t) /\ shutdowns > 0 /\ vector_service = 0)
                => \/ /\ Len(clients') = Len(clients) + 1
                      /\ vector_service' = Len(clients')
                      /\ pc'[t] = "ask_init"
                      /\ frame'[t].inst = Len(clients')
                   \/ /\ result'.op = "ask" /\ result'.kind = "raise"
                      /\ pc'[t] = "idle"]_vars
    /\ [][\A t \in Tasks :
            (pc[t] = "ask_init" /\ pc'[t] = "ask_search")
                => /\ frame'[t].inst = frame[t].inst
                   /\ clients'[frame[t].inst].initialized
                   /\ ~clients'[frame[t].inst].close_called]_vars

\* an ask that returned an answer from the second VectorService, constructed
\* after the shutdown of the first
C12_Witness ==
    /\ AskReturned /\ result.searched
    /\ shutdowns = 1
    /\ Len(clients) = 2
    /\ clients[1].close_called /\ clients[1].initialized
    /\ vector_service = 2 /\ clients[2].initialized /\ ~clients[2].close_called

(***************************************************************************)
(* Claims about the sources of an answer.                                  *)
(***************************************************************************)
\* C13: every citation record built for an answer, by RAGService.ask and by
\* the benchmark wrapper, has a content_preview of at most 200 characters,
\* whatever the length of section_text.
C13_PreviewBounded ==
    synth.stage = "sources" =>
        \A i \in 1..Len(synth.sources) :
            Len(synth.sources[i].content_preview) <= 200

\* the part of C13 that holds: the previews built by RAGService.ask
C13_ServicePreviewBounded ==
    (synth.stage = "sources" /\ synth.wrapper = "service" /\ ~synth.error) =>
        /\ Len(synth.sources) = Len(synth.docs)
        /\ \A i \in 1..Len(synth.sources) :
              /\ Len(synth.sources[i].content_preview) <= 200
              /\ synth.sources[i].content_preview
                 = SubSeq(Get(synth.docs[i], "section_text", <<>>), 1,
                          Len(synth.sources[i].content_preview))

\* the first n elements of a sequence, written without the slice of the code
FirstN(seq, n) == [i \in 1..(IF n < Len(seq) THEN n ELSE Len(seq)) |-> seq[i]]

\* C14: in an ask whose search returned candidates, the search was asked for
\* exactly 2 * topK and returned the store's best 2 * topK; the reranker ran
\* on all the candidates the search returned, the synthesizer on the selected
\* list, which is the first topK of the reranked candidates in reranked
\* order; the answer and the sources are built from that one list, and
\* sources[i] describes selected[i].
C14_PipelineOrder ==
    (AskReturned /\ result.documents # <<>>) =>
        LET k == result.top_k
            ranked == rerank_documents_with_similarity(result.query, result.documents)
            selected == FirstN(ranked, k)
        IN  /\ result.limit = 2 * k
            /\ result.documents = hybrid_search(rows, result.query, 2 * k)
            /\ result.reranked /\ result.synthesized
            /\ result.answer = generate_rag_response(result.query, selected)
            /\ Len(result.sources) = Len(selected)
            /\ \A i \in 1..Len(selected) :
                  /\ result.sources[i].disease_name = selected[i].disease_name
                  /\ result.sources[i].section_type = selected[i].section_type
                  /\ result.sources[i].page_number = selected[i].page_number
                  /\ result.sources[i].content_preview
                        = FirstN(selected[i].section_text, 200)

\* an ask with topK 1 over two chunks: the search returned both (limit 2),
\* the reranker put the chunk on the query's topic first, and the answer and
\* the only source are built from it
C14_Witness ==
    /\ AskReturned
    /\ result.top_k = 1 /\ result.limit = 2
    /\ Len(result.documents) = 2
    /\ Len(result.sources) = 1
    /\ result.sources[1].content_preview = <<"m", " ", "x">>
    /\ Len(result.answer.blocks) = 1
    /\ result.answer.blocks[1].snippet = <<"m", " ", "x">>

(***************************************************************************)
(* Claims about the order the rerankers return.                            *)
(***************************************************************************)
\* the position, in the list of scored documents, of a document (the
\* documents of a list differ in their chunk_id)
ScoredAt(d) == CHOOSE i \in 1..Len(rerank.scored) : rerank.scored[i][2] = d

\* C15: under both strategies the output of a reranker that scored its
\* documents holds the scored documents in non-increasing order of score,
\* and two documents of equal score keep the order they had in the input.
C15_SortedAndStable ==
    (rerank.stage = "done" /\ ~rerank.aborted) =>
        /\ Len(rerank.out) = Len(rerank.scored)
        /\ \A j \in 1..Len(rerank.out) :
              \E i \in 1..Len(rerank.scored) : rerank.scored[i][2] = rerank.out[j]
        /\ \A j, k \in 1..Len(rerank.out) :
              j < k =>
                LET a == ScoredAt(rerank.out[j])
                    b == ScoredAt(rerank.out[k])
                IN  /\ rerank.scored[a][1] >= rerank.scored[b][1]
                    /\ rerank.scored[a][1] = rerank.scored[b][1] => a < b
        /\ \A i, j \in 1..Len(rerank.scored) :
              /\ i < j => \E a, b \in 1..Len(rerank.documents) :
                            /\ a < b
                            /\ rerank.documents[a] = rerank.scored[i][2]
                            /\ rerank.documents[b] = rerank.scored[j][2]

\* three documents, the first two of equal score and the third of a higher
\* one: the third comes first, the two others in their input order
C15_Witness ==
    /\ rerank.stage = "done" /\ ~rerank.aborted
    /\ Len(rerank.scored) = 3
    /\ rerank.scored[1][1] = rerank.scored[2][1]
    /\ rerank.scored[3][1] > rerank.scored[1][1]
    /\ rerank.out = <<rerank.documents[3], rerank.documents[1], rerank.documents[2]>>

(***************************************************************************)
(* Claims about the synthesizer.                                           *)
(***************************************************************************)
\* the block describes the document: its name and section, or the defaults
\* of a document that has none, and a snippet that is its text or begins it
Describes(block, doc) ==
    LET text == IF "section_text" \in DOMAIN doc THEN doc.section_text ELSE <<>>
    IN  /\ block.name = (IF "disease_name" \in DOMAIN doc THEN doc.disease_name
                         ELSE "Doenca nao identificada")
        /\ block.section = (IF "section_type" \in DOMAIN doc THEN doc.section_type
                            ELSE "secao")
        /\ IF Len(text) <= 400 THEN block.snippet = text
           ELSE /\ EndsWithEllipsis(block.snippet)
                /\ \A i \in 1..(Len(block.snippet) - 3) : block.snippet[i] = text[i]

\* C16: generate_rag_response, on documents whose fields are present as
\* strings or missing, never raises; on an empty list it returns the fixed
\* no-relevant-information message; on n >= 1 documents it emits min(3, n)
\* citation blocks, the i-th describing the i-th document, followed by the
\* closing recommendation.
C16_SynthesisTotal ==
    (synth.stage = "done" /\ ~SliceRaises(synth.docs)) =>
        LET n == Len(synth.docs)
            out == synth.out
        IN  /\ ~out.raised
            /\ n = 0 => /\ out.msg = "no_relevant_information"
                        /\ out.blocks = <<>>
                        /\ ~out.closing
            /\ n >= 1 => /\ out.msg = "summary"
                         /\ Len(out.blocks) = (IF n < 3 THEN n ELSE 3)
                         /\ \A i \in 1..Len(out.blocks) :
                               Describes(out.blocks[i], synth.docs[i])
                         /\ out.closing

\* four documents, the first with no name, section or text: three blocks,
\* the first with the defaults
C16_Witness ==
    /\ synth.stage = "done"
    /\ Len(synth.docs) = 4
    /\ DOMAIN synth.docs[1] = {"page_number"}
    /\ Len(synth.out.blocks) = 3
    /\ synth.out.blocks[1].name = "Doenca nao identificada"
    /\ synth.out.blocks[1].snippet = <<>>
    /\ synth.out.closing

(***************************************************************************)
(* Claims about a collection setup that fails, and about shutdown during   *)
(* an ask.                                                                 *)
(***************************************************************************)
\* C17: a collection setup that raised does not leave the service looking
\* Ready: once the failed call has ended, vector_service is None or a
\* VectorService whose setup completed, so that a later ask runs the setup
\* before it searches; no ask is suspended in a search on a VectorService
\* whose setup never completed.
C17_FailedSetupNotReady ==
    /\ ((\A t \in Tasks : pc[t] = "idle") /\ vector_service # 0)
          => clients[vector_service].initialized
    /\ \A t \in Tasks :
          (Searching(t) /\ \A u \in Tasks : ~Initializing(u))
              => clients[frame[t].inst].initialized

\* self.vector_service.hybrid_search found self.vector_service set to None
DereferencedNone ==
    /\ result.op = "ask" /\ result.kind = "raise"
    /\ "why" \in DOMAIN result
    /\ result.why = "AttributeError"

\* C18: however a shutdown interleaves with an ask in flight, no ask is
\* suspended in a search on a VectorService whose client has been closed,
\* and no ask finds vector_service set to None by shutdown between its
\* Ready check and its search.
C18_ShutdownDoesNotBreakAsk ==
    /\ \A t \in Tasks : Searching(t) => ~clients[frame[t].inst].close_called
    /\ ~DereferencedNone

(***************************************************************************)
(* Claims about the primary keys insert_documents writes.                  *)
(***************************************************************************)
\* the chunk_id a document came with, and whether it is missing or blank
InputChunkId(doc) == IF "chunk_id" \in DOMAIN doc THEN doc.chunk_id ELSE <<>>

BlankChunkId(doc) == \A i \in 1..Len(InputChunkId(doc)) : InputChunkId(doc)[i] = " "

\* C19: every record insert_documents writes has a non-empty primary key
\* equal to its chunk_id field; two records written by one call have the
\* same key only if their documents came with the same chunk_id; and the
\* key given to a document whose chunk_id is missing or blank is the key of
\* no other record, of the same batch or of an earlier one.
C19_PrimaryKeysDistinct ==
    (last.op = "insert" /\ last.ret) =>
        LET good == SelectSeq(last.documents, WellFormed)
        IN  /\ Len(Written) = Len(good)
            /\ \A k \in 1..Len(Written) :
                  /\ Written[k].id # <<>>
                  /\ Written[k].id = Written[k].chunk_id
                  /\ \A j \in 1..Len(Written) :
                        (j # k /\ Written[j].id = Written[k].id)
                            => /\ InputChunkId(good[j]) = InputChunkId(good[k])
                               /\ ~BlankChunkId(good[k])
                  /\ BlankChunkId(good[k]) =>
                        \A j \in 1..Len(last.rows_before) :
                            last.rows_before[j].id # Written[k].id

====
